---- MODULE Spec2Model ----
(***************************************************************************)
(* Model of the feed worker of src/src/lib.rs: the routes GET /posts,      *)
(* POST /posts, OPTIONS /posts, POST /updatelikes, GET /users and          *)
(* POST /users over two key-value namespaces (posts, users) and an         *)
(* external authentication service.  Every request is an independent       *)
(* handler; a handler is cut at its external calls (each .await on the     *)
(* store or on the auth service is one step), so requests interleave at    *)
(* exactly the points where the code suspends.                             *)
(***************************************************************************)
EXTENDS Integers, Sequences, FiniteSets, TLC

\* ---------------------------------------------------------------- bounds
MaxReq == 3      \* requests handled in one behaviour
MaxTime == 2     \* values the wall clock takes

\* ------------------------------------------------------------ JSON values
\* Strings are sequences of one-character strings, so that serialisation
\* (quoting, escaping) and the pop()/remove(0) trimming act on characters.
Q == "\""
BS == "\\"

JAbsent == [k |-> "absent", s |-> <<>>, n |-> 0]
JStr(s) == [k |-> "str", s |-> s, n |-> 0]
JNum(n) == [k |-> "num", s |-> <<>>, n |-> n]

\* serde_json's escaping of a string's characters
RECURSIVE Escape(_)
Escape(s) ==
    IF s = <<>> THEN <<>>
    ELSE (IF Head(s) = Q THEN <<BS, Q>>
          ELSE IF Head(s) = BS THEN <<BS, BS>>
          ELSE <<Head(s)>>) \o Escape(Tail(s))

\* Value::to_string(): the JSON text of a value
JsonToString(v) ==
    IF v.k = "str" THEN <<Q>> \o Escape(v.s) \o <<Q>>
    ELSE IF v.k = "num" THEN <<ToString(v.n)>>
    ELSE <<>>

\* username.pop(); username.remove(0): remove(0) panics on an empty string
TrimPanics(s) == Len(s) <= 1
Trim(s) == SubSeq(s, 2, Len(s) - 1)

\* Utc::now().to_rfc3339(): the text of a clock value
TimeStr(t) == <<"T", ToString(t)>>

\* now + "-" + &username
MakeKey(time, username) == time \o <<"-">> \o username

\* --------------------------------------------------------------- inputs
Usernames == {<<"a">>, <<Q>>}
Times == {TimeStr(t) : t \in 1..MaxTime}
Likes == {1, 2}
Cookies == {<<>>, <<"c">>}
\* what the auth service may answer on /verify and in Set-Cookie
VerifyBodies == Usernames
SetCookies == {<<"s">>}

Body(u, t, l) == [username |-> u, time |-> t, likes |-> l]
NoBody == Body(JAbsent, JAbsent, JAbsent)

\* what is sent to POST /posts, body and cookie: the caller's time is some
\* text of its own; a body may lack its username or its time
NewPostInputs ==
    {<<Body(JStr(u), JStr(<<"x">>), JAbsent), c>> : u \in Usernames, c \in Cookies}
    \cup {<<Body(JAbsent, JStr(<<"x">>), JAbsent), <<>> >>,
          <<Body(JStr(<<"a">>), JAbsent, JAbsent), <<>> >>}

\* bodies sent to POST /updatelikes
LikeBodies ==
    {Body(JStr(u), JStr(t), JNum(l)) : u \in Usernames, t \in Times, l \in Likes}
    \cup {Body(JAbsent, JStr(TimeStr(1)), JNum(1)),
          Body(JStr(<<"a">>), JAbsent, JNum(1))}

\* what is sent to POST /updatelikes, body and cookie
LikeInputs ==
    {<<b, <<>> >> : b \in LikeBodies}
    \cup {<<Body(JStr(<<"a">>), JStr(TimeStr(1)), JNum(2)), <<"c">> >>}

\* bodies sent to POST /users
UserBodies ==
    {Body(JStr(u), JAbsent, JAbsent) : u \in Usernames} \cup {NoBody}

\* ---------------------------------------------------------------- state
VARIABLES
    posts,   \* the namespace "my-app-general_posts_preview": key -> stored body
    users,   \* the namespace "users": username -> registration time
    clock,   \* the wall clock read by Utc::now()
    reqs     \* the requests: inputs, handler position, locals, response, calls made

vars == <<posts, users, clock, reqs>>

Reqs == 1..MaxReq

IdleReq ==
    [kind |-> "idle", pc |-> "idle", body |-> NoBody, cookie |-> <<>>,
     now |-> <<>>, username |-> <<>>, key |-> <<>>, keys |-> <<>>, out |-> <<>>,
     setCookie |-> <<>>, resp |-> "none", respCookie |-> <<>>, respBody |-> NoBody,
     verifyBody |-> <<>>, verifyCalls |-> 0, authCalls |-> 0,
     postPuts |-> 0, postDeletes |-> 0, userPuts |-> 0, wrote |-> FALSE,
     fault |-> "none", hQuiet |-> FALSE, hKnown |-> FALSE, hKeys |-> {}]

\* The last four fields and the call counters are history: fault names the
\* external call of the request that failed, hQuiet tells that every earlier
\* request had ended when this one arrived, hKnown that the username was in
\* the users namespace then, hKeys the keys of the posts namespace then.

Init ==
    /\ posts = <<>>
    /\ users = <<>>
    /\ clock = 1
    /\ reqs = [r \in Reqs |-> IdleReq]

\* a request arrives in the next unused slot
CanStart(r) ==
    /\ reqs[r].kind = "idle"
    /\ \A q \in Reqs : q < r => reqs[q].kind # "idle"

\* the record of a request of the given kind as it arrives
Arrive(r, kind, body) ==
    [IdleReq EXCEPT !.kind = kind, !.body = body,
        !.hQuiet = /\ kind \in {"GetPosts", "UpdateLikes"}
                   /\ \A q \in Reqs : q < r => reqs[q].pc = "done",
        !.hKeys = IF kind = "UpdateLikes" THEN DOMAIN posts ELSE {},
        !.hKnown = /\ kind \in {"PostPosts", "UpdateLikes"}
                   /\ body.username.k = "str"
                   /\ Trim(JsonToString(body.username)) \in DOMAIN users]

\* a handler that panics (unwrap(), remove(0)) or returns Err (`?`) ends there
Panicked(req, what) == [req EXCEPT !.pc = "done", !.resp = "panic", !.fault = what]
Failed(req, what) == [req EXCEPT !.pc = "done", !.resp = "Err", !.fault = what]

\* put / delete of one key
KvPut(kv, key, value) == (key :> value) @@ kv
KvDelete(kv, key) == [x \in (DOMAIN kv) \ {key} |-> kv[x]]

\* kv.list(): the key names, in the store's fixed enumeration order
RECURSIVE KeyList(_)
KeyList(S) ==
    IF S = {} THEN <<>>
    ELSE LET x == CHOOSE y \in S : TRUE IN <<x>> \o KeyList(S \ {x})

Tick ==
    /\ clock < MaxTime
    /\ clock' = clock + 1
    /\ UNCHANGED <<posts, users, reqs>>

\* ------------------------------------------------------------ POST /posts
\* a variant that verifies every request, with or without a cookie
AfterParseAlways(cookie) == "verify"

\* line 147: the verification is made only when the request carries a cookie
AfterParse(cookie) == IF Len(cookie) > 0 THEN "verify" ELSE "auth"

\* lines 133-146: parse, stamp the time, extract the username
PostPostsStart(r) ==
    /\ CanStart(r)
    /\ \E in \in NewPostInputs :
        LET body == in[1]
            cookie == in[2]
            now == TimeStr(clock)
            raw == IF body.username.k = "absent" THEN <<>>
                   ELSE JsonToString(body.username)
            base == [Arrive(r, "PostPosts", body) EXCEPT !.cookie = cookie, !.now = now]
        IN  \/ /\ body.time.k = "absent"            \* get_mut("time").unwrap()
               /\ reqs' = [reqs EXCEPT ![r] = Panicked(base, "input")]
            \/ /\ body.time.k # "absent"
               /\ TrimPanics(raw)                   \* username.remove(0)
               /\ reqs' = [reqs EXCEPT ![r] =
                     Panicked([base EXCEPT !.body.time = JStr(now)], "input")]
            \/ /\ body.time.k # "absent"
               /\ ~TrimPanics(raw)
               /\ reqs' = [reqs EXCEPT ![r] =
                     [base EXCEPT !.pc = AfterParse(cookie),
                                  !.body.time = JStr(now),
                                  !.username = Trim(raw)]]
    /\ UNCHANGED <<posts, users, clock>>

\* the status of the response to a failed verification (line 154)
VerifyRejectStatus == "400"

\* a variant that lets every answer through
VerifyAcceptsAny(respBody, username) == TRUE

\* whether the answer of /verify lets the request through (line 153)
VerifyAccepts(respBody, username) == respBody = username

\* lines 148-152: the call of /verify or the read of its body fails: unwrap()
VerifyFailed(req) == Panicked(req, "verify")

\* lines 147-156: GET /verify
PostPostsVerify(r) ==
    /\ reqs[r].kind = "PostPosts" /\ reqs[r].pc = "verify"
    /\ LET called == [reqs[r] EXCEPT !.verifyCalls = @ + 1] IN
        \/ reqs' = [reqs EXCEPT ![r] = VerifyFailed(called)]
        \/ \E text \in VerifyBodies :
              reqs' = [reqs EXCEPT ![r] =
                 IF VerifyAccepts(text, reqs[r].username)
                 THEN [called EXCEPT !.pc = "auth", !.verifyBody = text]
                 ELSE [called EXCEPT !.pc = "done", !.verifyBody = text,
                                     !.resp = VerifyRejectStatus]]
    /\ UNCHANGED <<posts, users, clock>>

\* a variant that goes on to the put after a failed call
AuthFailedIgnored(req, what) == [req EXCEPT !.pc = "put", !.fault = what]

\* lines 159-170: the call of /auth/{username} fails, or its answer has no
\* set-cookie header: unwrap()
AuthFailed(req, what) == Panicked(req, what)

\* lines 158-170: GET /auth/{username}
PostPostsAuth(r) ==
    /\ reqs[r].kind = "PostPosts" /\ reqs[r].pc = "auth"
    /\ LET called == [reqs[r] EXCEPT !.authCalls = @ + 1] IN
        \/ reqs' = [reqs EXCEPT ![r] = AuthFailed(called, "auth")]
        \/ reqs' = [reqs EXCEPT ![r] = AuthFailed(called, "authHeader")]
        \/ \E c \in SetCookies :
              reqs' = [reqs EXCEPT ![r] =
                 [called EXCEPT !.pc = "put", !.setCookie = c]]
    /\ UNCHANGED <<posts, users, clock>>

\* a variant with the username first
PostKeyUserFirst(now, username) == MakeKey(username, now)

\* the key POST /posts stores under (line 176)
PostKey(now, username) == MakeKey(now, username)

\* a variant that sends back the cookie the request came with
SetCookieHeaderOfRequest(req) == req.cookie

\* line 195: the Set-Cookie header of the response
SetCookieHeader(req) == req.setCookie

\* lines 172-196: put into the posts namespace, respond
PostPostsPut(r) ==
    /\ reqs[r].kind = "PostPosts" /\ reqs[r].pc = "put"
    /\ LET called == [reqs[r] EXCEPT !.postPuts = @ + 1,
                                     !.key = PostKey(reqs[r].now, reqs[r].username)]
       IN
        \/ /\ reqs' = [reqs EXCEPT ![r] = Failed(called, "put")]   \* `?`
           /\ UNCHANGED posts
        \/ /\ posts' = KvPut(posts, called.key, reqs[r].body)
           /\ reqs' = [reqs EXCEPT ![r] =
                 [called EXCEPT !.pc = "done", !.resp = "200", !.wrote = TRUE,
                                !.respBody = reqs[r].body,
                                !.respCookie = SetCookieHeader(reqs[r])]]
    /\ UNCHANGED <<users, clock>>

\* ------------------------------------------------------- POST /updatelikes
\* a variant with the username first, as the comment of line 209 has it
LikeKeyUserFirst(body) ==
    MakeKey(Trim(JsonToString(body.username)), Trim(JsonToString(body.time)))

\* the key POST /updatelikes rebuilds from the body (lines 213-219)
LikeKey(body) ==
    MakeKey(Trim(JsonToString(body.time)), Trim(JsonToString(body.username)))

\* a variant that writes only over a key that is there
LikePutIfPresent(kv, key, body) ==
    IF key \in DOMAIN kv THEN KvPut(kv, key, body) ELSE kv

\* a variant that counts on from the likes it finds under the key
LikePutCounting(kv, key, body) ==
    IF key \in DOMAIN kv
    THEN KvPut(kv, key, [body EXCEPT !.likes = JNum(kv[key].likes.n + 1)])
    ELSE KvPut(kv, key, body)

\* the store after the put of a like-update (line 222)
LikePut(kv, key, body) == KvPut(kv, key, body)

\* a variant that lets only registered usernames update
LikeAllowedIfKnown(cookie, known) == known

\* lines 208-220: the handler reads neither the cookie nor the users namespace
LikeAllowed(cookie, known) == TRUE

\* lines 210-220: parse, rebuild the key, delete it
UpdateLikesDelete(r) ==
    /\ CanStart(r)
    /\ \E in \in LikeInputs :
        LET body == in[1]
            base == [Arrive(r, "UpdateLikes", body) EXCEPT !.cookie = in[2]] IN
        \/ /\ \/ body.username.k = "absent"           \* get("username").unwrap()
              \/ body.time.k = "absent"               \* get("time").unwrap()
              \/ TrimPanics(JsonToString(body.username))
              \/ TrimPanics(JsonToString(body.time))
           /\ reqs' = [reqs EXCEPT ![r] = Panicked(base, "input")]
           /\ UNCHANGED posts
        \/ /\ body.username.k # "absent" /\ body.time.k # "absent"
           /\ ~TrimPanics(JsonToString(body.username))
           /\ ~TrimPanics(JsonToString(body.time))
           /\ LET called == [base EXCEPT !.key = LikeKey(body),
                                         !.username = Trim(JsonToString(body.username)),
                                         !.postDeletes = 1]
              IN IF ~LikeAllowed(base.cookie, base.hKnown)
                 THEN /\ reqs' = [reqs EXCEPT ![r] =
                            [base EXCEPT !.pc = "done", !.resp = "400"]]
                      /\ UNCHANGED posts
                 ELSE \/ /\ reqs' = [reqs EXCEPT ![r] = Failed(called, "delete")]   \* `?`
                         /\ UNCHANGED posts
                      \/ /\ posts' = KvDelete(posts, called.key)
                         /\ reqs' = [reqs EXCEPT ![r] = [called EXCEPT !.pc = "put"]]
    /\ UNCHANGED <<users, clock>>

\* lines 221-236: put the incoming body under the key, respond
UpdateLikesPut(r) ==
    /\ reqs[r].kind = "UpdateLikes" /\ reqs[r].pc = "put"
    /\ LET called == [reqs[r] EXCEPT !.postPuts = @ + 1] IN
        \/ /\ reqs' = [reqs EXCEPT ![r] = Failed(called, "put")]   \* `?`
           /\ UNCHANGED posts
        \/ /\ posts' = LikePut(posts, reqs[r].key, reqs[r].body)
           /\ reqs' = [reqs EXCEPT ![r] =
                 [called EXCEPT !.pc = "done", !.resp = "200", !.wrote = TRUE,
                                !.respBody = reqs[r].body]]
    /\ UNCHANGED <<users, clock>>

\* -------------------------------------------------------------- GET /posts
\* a variant that loses the first key of the listing
ListedKeysSkipFirst(kv) ==
    IF DOMAIN kv = {} THEN <<>> ELSE Tail(KeyList(DOMAIN kv))

\* the keys GET /posts is going to fetch (line 111)
ListedKeys(kv) == KeyList(DOMAIN kv)

\* lines 110-112: list the keys of the posts namespace
GetPostsList(r) ==
    /\ CanStart(r)
    /\ LET base == Arrive(r, "GetPosts", NoBody) IN
        \/ reqs' = [reqs EXCEPT ![r] = Failed(base, "list")]   \* `?`
        \/ reqs' = [reqs EXCEPT ![r] =
              IF ListedKeys(posts) = <<>>
              THEN [base EXCEPT !.pc = "done", !.resp = "200"]
              ELSE [base EXCEPT !.pc = "get", !.keys = ListedKeys(posts)]]
    /\ UNCHANGED <<posts, users, clock>>

\* lines 113-130: fetch the next key; after the last one, respond
GetPostsGet(r) ==
    /\ reqs[r].kind = "GetPosts" /\ reqs[r].pc = "get"
    /\ LET key == Head(reqs[r].keys) IN
        \/ reqs' = [reqs EXCEPT ![r] = Panicked(@, "get")]   \* unwrap() of Err
        \/ /\ key \notin DOMAIN posts                  \* unwrap() of None
           /\ reqs' = [reqs EXCEPT ![r] = Panicked(@, "noValue")]
        \/ /\ key \in DOMAIN posts
           /\ reqs' = [reqs EXCEPT ![r] =
                 [@ EXCEPT !.out = Append(@, posts[key]),
                           !.keys = Tail(@),
                           !.pc = IF Len(reqs[r].keys) = 1 THEN "done" ELSE "get",
                           !.resp = IF Len(reqs[r].keys) = 1 THEN "200" ELSE "none"]]
    /\ UNCHANGED <<posts, users, clock>>

\* ------------------------------------------------------------ OPTIONS /posts
\* lines 198-207
OptionsPosts(r) ==
    /\ CanStart(r)
    /\ reqs' = [reqs EXCEPT ![r] =
          [Arrive(r, "Options", NoBody) EXCEPT !.pc = "done", !.resp = "200"]]
    /\ UNCHANGED <<posts, users, clock>>

\* -------------------------------------------------------------- GET /users
\* lines 238-259
GetUsers(r) ==
    /\ CanStart(r)
    /\ LET base == [Arrive(r, "GetUsers", NoBody) EXCEPT !.pc = "done"] IN
        \/ reqs' = [reqs EXCEPT ![r] = Failed(base, "list")]   \* `?`
        \/ reqs' = [reqs EXCEPT ![r] =
              [base EXCEPT !.resp = "200", !.out = KeyList(DOMAIN users)]]
    /\ UNCHANGED <<posts, users, clock>>

\* ------------------------------------------------------------- POST /users
\* lines 261-266: parse, read the clock, extract the username
PostUsersStart(r) ==
    /\ CanStart(r)
    /\ \E body \in UserBodies :
        LET base == [Arrive(r, "PostUsers", body) EXCEPT !.now = TimeStr(clock)]
        IN reqs' = [reqs EXCEPT ![r] =
              IF body.username.k = "absent" \/ TrimPanics(JsonToString(body.username))
              THEN Panicked(base, "input")
              ELSE [base EXCEPT !.pc = "put",
                                !.username = Trim(JsonToString(body.username))]]
    /\ UNCHANGED <<posts, users, clock>>

\* lines 267-284: put into the users namespace, respond
PostUsersPut(r) ==
    /\ reqs[r].kind = "PostUsers" /\ reqs[r].pc = "put"
    /\ LET called == [reqs[r] EXCEPT !.userPuts = @ + 1] IN
        \/ /\ reqs' = [reqs EXCEPT ![r] = Failed(called, "put")]   \* `?`
           /\ UNCHANGED users
        \/ /\ users' = KvPut(users, reqs[r].username, reqs[r].now)
           /\ reqs' = [reqs EXCEPT ![r] =
                 [called EXCEPT !.pc = "done", !.resp = "200", !.wrote = TRUE]]
    /\ UNCHANGED <<posts, clock>>

Next ==
    \/ Tick
    \/ \E r \in Reqs : PostPostsStart(r)
    \/ \E r \in Reqs : PostPostsVerify(r)
    \/ \E r \in Reqs : PostPostsAuth(r)
    \/ \E r \in Reqs : PostPostsPut(r)
    \/ \E r \in Reqs : UpdateLikesDelete(r)
    \/ \E r \in Reqs : UpdateLikesPut(r)
    \/ \E r \in Reqs : GetPostsList(r)
    \/ \E r \in Reqs : GetPostsGet(r)
    \/ \E r \in Reqs : OptionsPosts(r)
    \/ \E r \in Reqs : GetUsers(r)
    \/ \E r \in Reqs : PostUsersStart(r)
    \/ \E r \in Reqs : PostUsersPut(r)

Spec == Init /\ [][Next]_vars

\* ================================================================ claims
IsReq(r, kind) == reqs[r].kind = kind
Ended(r) == reqs[r].pc = "done"
LaterIdle(r) == \A q \in Reqs : q > r => reqs[q].kind = "idle"
Count(seq, x) == Cardinality({i \in 1..Len(seq) : seq[i] = x})

\* the key a post is created under, from the fields of the post itself
StoredKey(body) == PostKey(body.time.s, Trim(JsonToString(body.username)))

\* C1: a POST /posts with a cookie whose /verify answer equals the claimed
\* username succeeds with 200 and writes the post (its other calls succeeding);
\* any other answer is rejected with 401 and the request puts nothing.
C1_VerifyDecides ==
    \A r \in Reqs :
        (IsReq(r, "PostPosts") /\ Ended(r) /\ reqs[r].verifyBody # <<>>) =>
            IF reqs[r].verifyBody = reqs[r].body.username.s
            THEN reqs[r].fault = "none" => (reqs[r].resp = "200" /\ reqs[r].wrote)
            ELSE reqs[r].resp = "401" /\ reqs[r].postPuts = 0

\* C2: the first POST /posts of a username that is not in the users namespace
\* puts the username there and calls /auth/{username} once; a later POST /posts
\* of that username does neither.
C2_RegisteredOnce ==
    /\ \A r \in Reqs :
          (IsReq(r, "PostPosts") /\ reqs[r].resp = "200") =>
              reqs[r].username \in DOMAIN users
    /\ \A r \in Reqs :
          (IsReq(r, "PostPosts") /\ reqs[r].hKnown) => reqs[r].authCalls = 0
    /\ \A r1, r2 \in Reqs :
          (/\ r1 # r2 /\ IsReq(r1, "PostPosts") /\ IsReq(r2, "PostPosts")
           /\ reqs[r1].username = reqs[r2].username)
              => reqs[r1].authCalls + reqs[r2].authCalls <= 1

\* the POST /posts requests that had written their post when request g arrived
Creates(g) ==
    {q \in Reqs : q < g /\ IsReq(q, "PostPosts") /\ reqs[q].resp = "200"}

\* C3: from an empty posts namespace, a GET /posts that arrives after n
\* POST /posts have ended successfully under pairwise distinct keys (and no
\* like-update is made) returns exactly n posts, each created post once.
C3_ListAfterCreates ==
    \A g \in Reqs :
        (/\ IsReq(g, "GetPosts") /\ reqs[g].resp = "200" /\ reqs[g].hQuiet
         /\ \A q \in Reqs : ~IsReq(q, "UpdateLikes")
         /\ \A q1, q2 \in Reqs :
               (/\ q1 # q2
                /\ IsReq(q1, "PostPosts") /\ reqs[q1].postPuts = 1
                /\ IsReq(q2, "PostPosts") /\ reqs[q2].postPuts = 1)
                  => reqs[q1].key # reqs[q2].key)
        => /\ Len(reqs[g].out) = Cardinality(Creates(g))
           /\ \A q \in Creates(g) : Count(reqs[g].out, reqs[q].body) = 1

C3_Witness ==
    \E g \in Reqs :
        /\ IsReq(g, "GetPosts") /\ reqs[g].resp = "200" /\ reqs[g].hQuiet
        /\ Cardinality(Creates(g)) = 2
        /\ \A q1, q2 \in Creates(g) : q1 # q2 => reqs[q1].key # reqs[q2].key
        /\ Len(reqs[g].out) = 2

C6_MissingUsername ==
    \A r \in Reqs :
        (IsReq(r, "PostPosts") /\ Ended(r) /\ reqs[r].body.username.k = "absent")
        => /\ reqs[r].resp = "400"
           /\ reqs[r].postPuts = 0 /\ reqs[r].userPuts = 0

C8_FailedPutKeepsOld ==
    \A r \in Reqs :
        (/\ IsReq(r, "UpdateLikes") /\ reqs[r].fault = "put"
         /\ reqs[r].hQuiet /\ LaterIdle(r)
         /\ reqs[r].key \in reqs[r].hKeys)
        => reqs[r].key \in DOMAIN posts

\* C9: a POST /posts of a registered username that carries no cookie never
\* calls /verify and, its other calls succeeding, ends with 200 and its post
\* written.
C9_NoCookieSkipsVerify ==
    \A r \in Reqs :
        (IsReq(r, "PostPosts") /\ reqs[r].cookie = <<>> /\ reqs[r].hKnown)
        => /\ reqs[r].verifyCalls = 0 /\ reqs[r].verifyBody = <<>>
           /\ (Ended(r) /\ reqs[r].fault = "none")
                 => /\ reqs[r].resp = "200" /\ reqs[r].wrote
                    /\ reqs[r].postPuts = 1 /\ reqs[r].authCalls = 1

C9_Witness ==
    \E r \in Reqs :
        /\ IsReq(r, "PostPosts") /\ reqs[r].cookie = <<>> /\ reqs[r].hKnown
        /\ reqs[r].resp = "200" /\ reqs[r].wrote
        /\ reqs[r].key \in DOMAIN posts

\* C10: a POST /posts of a username that is not in the users namespace puts
\* the username there before it calls /auth/{username}; when that call fails
\* the request has ended without a post written and the username is in the
\* users namespace.
C10_RegisteredBeforeAuth ==
    \A r \in Reqs :
        (IsReq(r, "PostPosts") /\ ~reqs[r].hKnown /\ reqs[r].authCalls = 1)
        => /\ reqs[r].username \in DOMAIN users
           /\ reqs[r].fault \in {"auth", "authHeader"}
                 => (Ended(r) /\ ~reqs[r].wrote)

\* C11: a POST /posts that ends with 200 sends, as its Set-Cookie header, the
\* set-cookie header its own /auth/{username} call returned, and as its body
\* the post it stored, whose time is the server's reading of the clock.
C11_CookieRelayed ==
    \A r \in Reqs :
        (IsReq(r, "PostPosts") /\ reqs[r].resp = "200")
        => /\ reqs[r].authCalls = 1
           /\ reqs[r].setCookie \in SetCookies
           /\ reqs[r].respCookie = reqs[r].setCookie
           /\ reqs[r].respBody = reqs[r].body
           /\ reqs[r].respBody.time = JStr(reqs[r].now)
           /\ reqs[r].respBody.time.s \in Times
           /\ reqs[r].wrote
           /\ (\A q \in Reqs : q # r => reqs[q].key # reqs[r].key)
                 => /\ reqs[r].key \in DOMAIN posts
                    /\ posts[reqs[r].key] = reqs[r].respBody

C11_Witness ==
    \E r \in Reqs :
        /\ IsReq(r, "PostPosts") /\ reqs[r].resp = "200" /\ ~reqs[r].hKnown
        /\ reqs[r].respCookie = <<"s">> /\ reqs[r].cookie # reqs[r].respCookie
        /\ reqs[r].key \in DOMAIN posts /\ posts[reqs[r].key] = reqs[r].respBody

\* the POST /users requests that have put their username
Registered == {r \in Reqs : IsReq(r, "PostUsers") /\ reqs[r].resp = "200"}

\* the clock value a timestamp is the text of
ClockOf(ts) == CHOOSE t \in 1..MaxTime : TimeStr(t) = ts

\* C12: the users namespace holds one entry per username registered, equal to
\* the username given; GET /users reports exactly the usernames given to
\* earlier successful registrations; the timestamp of an entry is the latest
\* one registered for it.
C12_RegistryExact ==
    /\ DOMAIN users = {reqs[r].body.username.s : r \in Registered}
    /\ \A r \in Registered :
          /\ reqs[r].username \in DOMAIN users
          /\ ClockOf(users[reqs[r].username]) >= ClockOf(reqs[r].now)
    /\ \A g \in Reqs :
          (IsReq(g, "GetUsers") /\ reqs[g].resp = "200") =>
              \A i \in 1..Len(reqs[g].out) :
                  \E r \in Registered : reqs[g].out[i] = reqs[r].body.username.s

\* C13: a like-update calls neither /verify nor /auth/{username} and puts
\* nothing into the users namespace; it ends with 200 whenever its store calls
\* succeed; two like-updates with the same body and the same failure end the
\* same way, whatever their cookies and whether the username was registered.
C13_LikeNotGated ==
    /\ \A r \in Reqs :
          IsReq(r, "UpdateLikes") =>
              /\ reqs[r].verifyCalls = 0 /\ reqs[r].authCalls = 0
              /\ reqs[r].userPuts = 0
              /\ (Ended(r) /\ reqs[r].fault = "none")
                    => (reqs[r].resp = "200" /\ reqs[r].wrote)
    /\ \A r1, r2 \in Reqs :
          (/\ IsReq(r1, "UpdateLikes") /\ IsReq(r2, "UpdateLikes")
           /\ Ended(r1) /\ Ended(r2)
           /\ reqs[r1].body = reqs[r2].body /\ reqs[r1].fault = reqs[r2].fault)
          => /\ reqs[r1].resp = reqs[r2].resp
             /\ reqs[r1].key = reqs[r2].key
             /\ reqs[r1].wrote = reqs[r2].wrote
             /\ reqs[r1].respBody = reqs[r2].respBody
             /\ reqs[r1].postPuts = reqs[r2].postPuts

C13_Witness ==
    \E r1, r2 \in Reqs :
        /\ IsReq(r1, "UpdateLikes") /\ IsReq(r2, "UpdateLikes")
        /\ reqs[r1].body = reqs[r2].body
        /\ reqs[r1].cookie = <<>> /\ reqs[r2].cookie = <<"c">>
        /\ ~reqs[r1].hKnown /\ reqs[r2].hKnown
        /\ reqs[r1].resp = "200" /\ reqs[r2].resp = "200"

\* C14: two like-updates carrying the same body (likes = k+1) both end with
\* 200, also when they run at the same time on a post stored with likes = k,
\* and the key then holds that body: likes = k+1, one increment lost.
C14_LostUpdate ==
    \A r1, r2 \in Reqs :
        (/\ r1 < r2
         /\ IsReq(r1, "UpdateLikes") /\ IsReq(r2, "UpdateLikes")
         /\ reqs[r1].body = reqs[r2].body
         /\ Ended(r1) /\ Ended(r2)
         /\ reqs[r1].fault = "none" /\ reqs[r2].fault = "none")
        => /\ reqs[r1].resp = "200" /\ reqs[r2].resp = "200"
           /\ (/\ reqs[r1].hQuiet
               /\ \A q \in Reqs :
                     (q \notin {r1, r2} /\ reqs[q].key = reqs[r1].key) => q < r1)
                 => /\ reqs[r1].key \in DOMAIN posts
                    /\ posts[reqs[r1].key] = reqs[r1].body

C14_Witness ==
    \E q, r1, r2 \in Reqs :
        /\ q < r1 /\ r1 < r2
        /\ reqs[q].wrote /\ reqs[q].body.likes = JNum(1)
        /\ IsReq(r1, "UpdateLikes") /\ IsReq(r2, "UpdateLikes")
        /\ reqs[q].key = reqs[r1].key
        /\ reqs[r1].body = reqs[r2].body /\ reqs[r1].body.likes = JNum(2)
        /\ reqs[r1].hQuiet /\ reqs[r1].key \in reqs[r1].hKeys
        /\ ~reqs[r2].hQuiet
        /\ reqs[r1].resp = "200" /\ reqs[r2].resp = "200"
        /\ posts[reqs[r1].key].likes = JNum(2)

\* C15: no GET /posts finds a listed key without a value, and the key of a
\* post written by POST /posts stays in the posts namespace.
C15_NeverMissing ==
    /\ \A g \in Reqs : IsReq(g, "GetPosts") => reqs[g].fault # "noValue"
    /\ \A q \in Reqs :
          (IsReq(q, "PostPosts") /\ reqs[q].wrote) => reqs[q].key \in DOMAIN posts

\* C16: in a POST /posts the /verify call (made only with a cookie) comes
\* before the /auth/{username} call, which comes before the one put, which is
\* the last call; a request rejected at the verification calls neither
\* /auth/{username} nor the put; a post is put only after /auth/{username}
\* returned a set-cookie header.
C16_CallOrder ==
    \A r \in Reqs :
        IsReq(r, "PostPosts") =>
            /\ reqs[r].verifyCalls <= 1 /\ reqs[r].authCalls <= 1
            /\ reqs[r].postPuts <= 1
            /\ reqs[r].postDeletes = 0 /\ reqs[r].userPuts = 0
            /\ reqs[r].verifyCalls = 1 => reqs[r].cookie # <<>>
            /\ reqs[r].pc = "verify" => (reqs[r].verifyCalls = 0 /\ reqs[r].authCalls = 0)
            /\ reqs[r].pc = "auth" => reqs[r].authCalls = 0
            /\ reqs[r].authCalls = 1 =>
                  /\ reqs[r].postPuts = 1 => Ended(r)
                  /\ reqs[r].cookie # <<>> =>
                        /\ reqs[r].verifyCalls = 1
                        /\ reqs[r].verifyBody = reqs[r].username
            /\ reqs[r].postPuts = 1 =>
                  /\ reqs[r].authCalls = 1
                  /\ reqs[r].setCookie \in SetCookies
                  /\ Ended(r)
            /\ reqs[r].wrote => reqs[r].postPuts = 1
            /\ reqs[r].resp = "400" =>
                  /\ Ended(r) /\ reqs[r].verifyCalls = 1
                  /\ reqs[r].authCalls = 0 /\ reqs[r].postPuts = 0

C16_Witness ==
    /\ \E r \in Reqs :
          /\ IsReq(r, "PostPosts") /\ reqs[r].cookie # <<>>
          /\ reqs[r].verifyCalls = 1 /\ reqs[r].authCalls = 1
          /\ reqs[r].postPuts = 1 /\ reqs[r].wrote
    /\ \E r \in Reqs : IsReq(r, "PostPosts") /\ reqs[r].resp = "400"

\* C17: a like-update whose key is not in the posts namespace does not fail
\* for that: the delete changes nothing, the put makes an entry holding the
\* incoming body, and the namespace has one key more, with no POST /posts and
\* no call of the auth service.
C17_LikeCreates ==
    \A r \in Reqs :
        (/\ IsReq(r, "UpdateLikes") /\ reqs[r].fault # "input"
         /\ reqs[r].key \notin reqs[r].hKeys)
        => /\ reqs[r].verifyCalls = 0 /\ reqs[r].authCalls = 0
           /\ (Ended(r) /\ reqs[r].fault = "none") => reqs[r].resp = "200"
           /\ (reqs[r].hQuiet /\ LaterIdle(r)) =>
                 /\ reqs[r].pc = "put" => DOMAIN posts = reqs[r].hKeys
                 /\ reqs[r].resp = "200" =>
                       /\ DOMAIN posts = reqs[r].hKeys \cup {reqs[r].key}
                       /\ posts[reqs[r].key] = reqs[r].body
                       /\ Cardinality(DOMAIN posts) = Cardinality(reqs[r].hKeys) + 1

C17_Witness ==
    \E r \in Reqs :
        /\ IsReq(r, "UpdateLikes") /\ reqs[r].resp = "200" /\ reqs[r].hQuiet
        /\ reqs[r].key \notin reqs[r].hKeys
        /\ \A q \in Reqs : ~IsReq(q, "PostPosts")
        /\ reqs[r].key \in DOMAIN posts /\ posts[reqs[r].key] = reqs[r].body

\* the entries of a namespace other than the one under key are as they were
SameBut(kv, kv2, key) ==
    /\ (DOMAIN kv) \ {key} = (DOMAIN kv2) \ {key}
    /\ \A k \in (DOMAIN kv) \ {key} : kv[k] = kv2[k]

\* C18: GET /posts, GET /users and OPTIONS /posts change neither namespace;
\* POST /posts and POST /updatelikes leave the users namespace alone and
\* change at most the posts key of the request's time and username;
\* POST /users leaves the posts namespace alone and changes at most the users
\* key equal to the request's username.
C18_Frame ==
    [][\A r \in Reqs :
          reqs'[r] # reqs[r] =>
              /\ reqs'[r].kind \in {"GetPosts", "GetUsers", "Options"}
                    => (posts' = posts /\ users' = users)
              /\ reqs'[r].kind \in {"PostPosts", "UpdateLikes"}
                    => /\ users' = users
                       /\ posts' # posts => SameBut(posts, posts', StoredKey(reqs'[r].body))
              /\ reqs'[r].kind = "PostUsers"
                    => /\ posts' = posts
                       /\ SameBut(users, users', reqs'[r].body.username.s)]_vars

====
